---------------------------- MODULE Spec2Model ----------------------------
(***************************************************************************)
(* Stillwater backend: the analytics core (tick/price conversion, token    *)
(* amounts from liquidity, impermanent loss, fee estimate, net P&L), the   *)
(* position/swap store and the position HTTP handlers.                     *)
(*                                                                         *)
(* Numbers.  rust_decimal::Decimal is a sign, a 96-bit mantissa and a      *)
(* scale 0..28.  Here a Decimal is a record [m, e] of value m * 10^e with  *)
(* a signed mantissa of at most eight significant digits, the range of     *)
(* the Rust type kept: nothing below 10^-28 is representable, a magnitude  *)
(* above 79228162 * 10^21 (2^96 - 1 to eight digits) overflows, and an     *)
(* overflowing operator panics.  Results are truncated to eight digits     *)
(* where Rust keeps about 28.  U256 and I256 values, which the code only   *)
(* prints and re-parses, are numerals of the same shape.                   *)
(***************************************************************************)
EXTENDS Integers, Sequences, FiniteSets, TLC

\* ------------------------------------------------------------------------
\* Decimal: representation
\* ------------------------------------------------------------------------

\* A mantissa is two limbs of four decimal digits.
Limb == 10000

MantMax == Limb * Limb

MantMin == MantMax \div 10

\* Decimal's largest scale: 28 fractional digits.
MAX_SCALE == 28

\* 2^96 - 1 = 79228162514264337593543950335, to eight digits.
MaxMant == 79228162

MaxExp == 21

Abs(n) == IF n < 0 THEN -n ELSE n

Sgn(n) == IF n < 0 THEN -1 ELSE 1

\* The outcome of an operator that panicked (overflow, division by zero).
Panic == [m |-> 0, e |-> 99]

IsPanic(d) == d.e = 99

RECURSIVE NormMag(_, _)
\* The canonical form of magnitude m * 10^e: eight significant digits, or
\* fewer when the value needs the last representable digit 10^-28.
NormMag(m, e) ==
    IF m = 0 THEN [m |-> 0, e |-> 0]
    ELSE IF m >= MantMax \/ e < -MAX_SCALE THEN NormMag(m \div 10, e + 1)
    ELSE IF m < MantMin /\ e > -MAX_SCALE THEN NormMag(m * 10, e - 1)
    ELSE [m |-> m, e |-> e]

Overflows(d) == d.e > MaxExp \/ (d.e = MaxExp /\ Abs(d.m) > MaxMant)

\* The canonical magnitude n with sign s; Panic when it does not fit.
Signed(s, n) == IF Overflows(n) THEN Panic ELSE [m |-> s * n.m, e |-> n.e]

\* A Decimal from sign, magnitude and exponent.
Mk(s, m, e) == Signed(s, NormMag(m, e))

\* Decimal::from(i32), Decimal::from(i64)
FromInt(n) == Mk(Sgn(n), Abs(n), 0)

ZERO == [m |-> 0, e |-> 0]

ONE == FromInt(1)

is_zero(d) == d.m = 0

is_sign_negative(d) == d.m < 0

Neg(d) == IF IsPanic(d) THEN Panic ELSE [m |-> -d.m, e |-> d.e]

DecAbs(d) == IF IsPanic(d) THEN Panic ELSE [m |-> Abs(d.m), e |-> d.e]

\* ------------------------------------------------------------------------
\* Decimal: comparison
\* ------------------------------------------------------------------------

\* a < b for canonical magnitudes.
MagLess(a, b) ==
    IF a.m = 0 THEN b.m # 0
    ELSE IF b.m = 0 THEN FALSE
    ELSE IF a.e # b.e /\ a.m >= MantMin /\ b.m >= MantMin THEN a.e < b.e
    ELSE IF a.e = b.e THEN a.m < b.m
    \* one of them has fewer than eight digits: it sits at 10^-28
    ELSE IF a.e < b.e THEN TRUE ELSE FALSE

Lt(a, b) ==
    IF a.m < 0 /\ b.m >= 0 THEN TRUE
    ELSE IF a.m >= 0 /\ b.m < 0 THEN FALSE
    ELSE IF a.m >= 0 THEN MagLess(a, b)
    ELSE MagLess(DecAbs(b), DecAbs(a))

Le(a, b) == a = b \/ Lt(a, b)

Gt(a, b) == Lt(b, a)

Ge(a, b) == Le(b, a)

DecMax(a, b) == IF Lt(a, b) THEN b ELSE a

\* ------------------------------------------------------------------------
\* Decimal: arithmetic
\* ------------------------------------------------------------------------

RECURSIVE ShiftRight(_, _)
\* m with its last k digits dropped.
ShiftRight(m, k) ==
    IF k = 0 \/ m = 0 THEN m ELSE ShiftRight(m \div 10, k - 1)

\* The sum of mantissas at a common exponent.
SumAt(s, e) == Mk(Sgn(s), Abs(s), e)

\* hi + lo, where hi.e >= lo.e: lo is aligned to hi's exponent.
AddAligned(hi, lo) ==
    SumAt(hi.m + Sgn(lo.m) * ShiftRight(Abs(lo.m), hi.e - lo.e), hi.e)

\* a + b
Add(a, b) ==
    IF IsPanic(a) \/ IsPanic(b) THEN Panic
    ELSE IF a.m = 0 THEN b
    ELSE IF b.m = 0 THEN a
    ELSE IF a.e >= b.e THEN AddAligned(a, b)
    ELSE AddAligned(b, a)

Sub(a, b) == Add(a, Neg(b))

RECURSIVE ShiftIn(_, _, _)
\* The leading eight digits of hi * 10^8 + lo (lo < 10^8), as a magnitude.
ShiftIn(hi, lo, e) ==
    IF hi >= MantMin \/ (lo = 0 /\ hi # 0) THEN NormMag(hi, e)
    ELSE ShiftIn(hi * 10 + (lo \div MantMin), (lo % MantMin) * 10, e - 1)

\* The product hi * 10^8 + low, times 10^e, cut to eight digits.
MulCut(hi, low, e) ==
    IF hi = 0 THEN NormMag(low, e) ELSE ShiftIn(hi, low, e + 8)

\* The carries of the limb products: lo, mid and hi are the products at
\* 10^0, 10^4 and 10^8.
MulCarry(lo, mid, hi, e) ==
    MulCut(hi + ((mid + (lo \div Limb)) \div Limb),
           ((mid + (lo \div Limb)) % Limb) * Limb + (lo % Limb), e)

\* x * y * 10^e for magnitudes x and y, exact in two limbs.
MulMag(x, y, e) ==
    MulCarry((x % Limb) * (y % Limb),
             (x \div Limb) * (y % Limb) + (x % Limb) * (y \div Limb),
             (x \div Limb) * (y \div Limb), e)

\* a * b
Mul(a, b) ==
    IF IsPanic(a) \/ IsPanic(b) THEN Panic
    ELSE IF a.m = 0 \/ b.m = 0 THEN ZERO
    ELSE Signed(Sgn(a.m) * Sgn(b.m), MulMag(Abs(a.m), Abs(b.m), a.e + b.e))

RECURSIVE LongDiv(_, _, _, _)
\* Long division: quotient q so far with remainder r of a division by d.
LongDiv(q, r, d, e) ==
    IF q >= MantMin \/ r = 0 \/ e <= -MAX_SCALE THEN NormMag(q, e)
    ELSE LongDiv(q * 10 + ((r * 10) \div d), (r * 10) % d, d, e - 1)

\* x / y * 10^e for magnitudes x and y.
DivMag(x, y, e) == LongDiv(x \div y, x % y, y, e)

\* a / b; division by zero panics.
Div(a, b) ==
    IF IsPanic(a) \/ IsPanic(b) \/ b.m = 0 THEN Panic
    ELSE IF a.m = 0 THEN ZERO
    ELSE Signed(Sgn(a.m) * Sgn(b.m), DivMag(Abs(a.m), Abs(b.m), a.e - b.e))

\* A decimal literal m * 10^e.
Lit(m, e) == Mk(Sgn(m), Abs(m), e)

\* ------------------------------------------------------------------------
\* Decimal: rounding, exp and ln
\* ------------------------------------------------------------------------

I32_MAX == 2147483647

RECURSIVE Pow10(_)
Pow10(k) == IF k = 0 THEN 1 ELSE 10 * Pow10(k - 1)

\* Midpoint-to-even rounding of integer part ip and fraction frac / p.
RoundEven(ip, frac, p) ==
    IF 2 * frac > p \/ (2 * frac = p /\ ip % 2 = 1) THEN ip + 1 ELSE ip

\* x / p, rounded.
RoundMag(x, p) == RoundEven(x \div p, x % p, p)

\* Decimal::round (midpoint to even) followed by to_i32().unwrap_or(0).
round_to_i32(d) ==
    IF d.e >= 3 \/ (d.e = 2 /\ Abs(d.m) > I32_MAX \div 100) THEN 0
    ELSE IF d.e >= 0 THEN d.m * Pow10(d.e)
    ELSE IF d.e <= -9 THEN 0
    ELSE Sgn(d.m) * RoundMag(Abs(d.m), Pow10(-d.e))

RECURSIVE Fact(_)
Fact(k) == IF k = 0 THEN ONE ELSE Mul(Fact(k - 1), FromInt(k))

\* rust_decimal's table of 0! .. 27!.
FACTORIAL == [k \in 0..27 |-> Fact(k)]

\* rust_decimal's EXP_TOLERANCE, 0.0000002.
EXP_TOLERANCE == Lit(2, -7)

RECURSIVE ExpSeries(_, _, _, _)
RECURSIVE ExpTerm(_, _, _, _)
RECURSIVE ExpNext(_, _, _, _, _)

\* The Taylor series of Decimal::exp from its k-th term on; term is x^(k-1).
ExpSeries(x, term, result, k) ==
    IF k > 27 THEN result ELSE ExpTerm(x, Mul(x, term), result, k)

\* term = self.checked_mul(term)?: an overflowing power ends the call.
ExpTerm(x, term, result, k) ==
    IF IsPanic(term) THEN Panic
    ELSE ExpNext(x, term, result, Add(result, Div(term, FACTORIAL[k])), k)

\* next = result + term / k!; the series stops once it moves by no more
\* than the tolerance.
ExpNext(x, term, result, next, k) ==
    IF IsPanic(next) THEN Panic
    ELSE IF Le(DecAbs(Sub(next, result)), EXP_TOLERANCE) THEN next
    ELSE ExpSeries(x, term, next, k + 1)

\* The series for a positive argument.
ExpPos(x) == ExpSeries(x, x, Add(x, ONE), 2)

\* Decimal::exp: "Exp overflowed" / "Exp underflowed" are panics.
Exp(x) ==
    IF IsPanic(x) THEN Panic
    ELSE IF is_zero(x) THEN ONE
    ELSE IF is_sign_negative(x) THEN Div(ONE, ExpPos(Neg(x)))
    ELSE ExpPos(x)

\* Decimal::E and Decimal::E_INVERSE.
E == Lit(27182818, -7)

E_INVERSE == Lit(36787944, -8)

RECURSIVE LnDown(_, _)
\* while x >= 1 { x *= E_INVERSE; count += 1 }
LnDown(x, count) ==
    IF Ge(x, ONE) THEN LnDown(Mul(x, E_INVERSE), count + 1)
    ELSE [x |-> x, count |-> count]

RECURSIVE LnUp(_, _)
\* while x <= E_INVERSE { x *= E; count -= 1 }
LnUp(x, count) ==
    IF Le(x, E_INVERSE) /\ ~is_zero(x) THEN LnUp(Mul(x, E), count - 1)
    ELSE [x |-> x, count |-> count]

RECURSIVE LnSeries(_, _, _, _, _)
RECURSIVE LnStep(_, _, _, _)

\* while last != result && iteration < 100 { ... }
LnSeries(x, y, lastr, result, iteration) ==
    IF lastr = result \/ iteration >= 100 THEN result
    ELSE LnStep(x, Mul(y, Neg(x)), result, iteration + 1)

\* y *= -x; result += y / iteration
LnStep(x, y, result, iteration) ==
    LnSeries(x, y, result, Add(result, Div(y, FromInt(iteration))), iteration)

\* x -= 1, then the series, then count - result.
LnReduced(x, count) ==
    IF is_zero(x) THEN FromInt(count)
    ELSE Sub(FromInt(count), LnSeries(x, ONE, ONE, ZERO, 0))

LnTo(r) == LnReduced(Sub(r.x, ONE), r.count)

\* The two range-reduction loops, in turn.
LnFrom(down) == LnTo(LnUp(down.x, down.count))

\* Decimal::ln of a positive value (the callers guard the others).
Ln(d) ==
    IF IsPanic(d) \/ d.m <= 0 THEN Panic
    ELSE IF d = ONE THEN ZERO
    ELSE LnFrom(LnDown(d, 0))

\* ------------------------------------------------------------------------
\* U256 / I256 and their way into Decimal
\* ------------------------------------------------------------------------

\* The outcome of a failed Decimal::from_str.
ParseErr == [m |-> 0, e |-> 98]

\* A U256 or I256 value m * 10^e (eight significant digits).
Num(m, e) ==
    LET n == NormMag(Abs(m), e) IN [m |-> Sgn(m) * n.m, e |-> n.e]

\* I256::MIN, -2^255.
I256_MIN == [m |-> -57896044, e |-> 69]

\* I256::abs: |MIN| does not fit; a debug build panics there and a release
\* build returns MIN itself.
i256_abs(v, debug) ==
    IF v = I256_MIN THEN (IF debug THEN Panic ELSE v)
    ELSE [m |-> Abs(v.m), e |-> v.e]

\* Decimal::from_str(&v.to_string()): an integer beyond 96 bits is an Err,
\* and so is the text of a negative number too large in magnitude.
from_str_int(v) ==
    IF IsPanic(v) THEN Panic
    ELSE IF Overflows(v) THEN ParseErr
    ELSE v

\* Result::unwrap_or(Decimal::ZERO)
unwrap_or_zero(r) == IF r = ParseErr THEN ZERO ELSE r

\* ------------------------------------------------------------------------
\* analytics/src/utils.rs
\* ------------------------------------------------------------------------

\* The upper bound never tested.
is_in_range_lower_only(current_tick, tick_lower, tick_upper) ==
    current_tick >= tick_lower

\* The lower bound taken as exclusive.
is_in_range_lower_exclusive(current_tick, tick_lower, tick_upper) ==
    current_tick > tick_lower /\ current_tick < tick_upper

\* The upper bound taken as inclusive.
is_in_range_upper_inclusive(current_tick, tick_lower, tick_upper) ==
    current_tick >= tick_lower /\ current_tick <= tick_upper

is_in_range(current_tick, tick_lower, tick_upper) ==
    current_tick >= tick_lower /\ current_tick < tick_upper

I32_MIN == -I32_MAX - 1

\* An i32 result: the value, or the panic of an overflow check.
I32(value) == [value |-> value, panicked |-> FALSE]

I32Panic == [value |-> 0, panicked |-> TRUE]

\* a - b lies outside i32.
sub_overflows(a, b) ==
    \/ b < 0 /\ a > I32_MAX + b
    \/ b > 0 /\ a < I32_MIN + b

\* The two's complement result of an a - b that lies outside i32.
wrapping_sub(a, b) ==
    IF b < 0 THEN (a + I32_MIN) + (-(b + I32_MAX) - 1)
    ELSE (a - I32_MIN) + ((I32_MAX - b) + 1)

\* i32 `a - b`: an overflow panics where overflow checks are compiled in
\* (debug) and wraps where they are not.
i32_sub(a, b, debug) ==
    IF ~sub_overflows(a, b) THEN I32(a - b)
    ELSE IF debug THEN I32Panic
    ELSE I32(wrapping_sub(a, b))

\* dist_to_lower.min(dist_to_upper)
i32_min(a, b) ==
    IF a.panicked \/ b.panicked THEN I32Panic
    ELSE I32(IF a.value <= b.value THEN a.value ELSE b.value)

distance_to_range_edge(current_tick, tick_lower, tick_upper, debug) ==
    IF current_tick < tick_lower THEN I32(0)
    ELSE IF current_tick >= tick_upper THEN I32(0)
    ELSE i32_min(i32_sub(current_tick, tick_lower, debug),
                 i32_sub(tick_upper, current_tick, debug))

\* The ln(1.0001) the code spells out, 0.00009999500033330834.
ln_base == Lit(99995000, -12)

half == Lit(5, -1)

\* The clamp of tick_to_sqrt_price, or the exponential.
sqrt_price_of(tick, exponent) ==
    IF Gt(DecAbs(exponent), FromInt(100))
    THEN (IF tick > 0 THEN Lit(1, 6) ELSE Lit(1, -6))
    ELSE Exp(exponent)

tick_to_sqrt_price(tick) ==
    sqrt_price_of(tick, Mul(Mul(FromInt(tick), half), ln_base))

Square(sqrt_price) == Mul(sqrt_price, sqrt_price)

tick_to_price(tick) == Square(tick_to_sqrt_price(tick))

\* Decimal::from_str("1.0001").unwrap().ln(): 0.0000999950003333..., the
\* value of the 28-digit series (eight digits cannot produce it from the
\* series: the result is a difference of two numbers near 1).
log_base == Lit(99995000, -12)

price_to_tick(price) ==
    IF Le(price, ZERO) THEN 0
    ELSE round_to_i32(Div(Ln(price), log_base))

\* if price_lower.is_zero() { return ZERO }
\* ((price_upper - price_lower) / price_lower) * 100
width_percent(price_lower, price_upper) ==
    IF IsPanic(price_lower) \/ IsPanic(price_upper) THEN Panic
    ELSE IF is_zero(price_lower) THEN ZERO
    ELSE Mul(Div(Sub(price_upper, price_lower), price_lower), FromInt(100))

range_width_percent(tick_lower, tick_upper) ==
    width_percent(tick_to_price(tick_lower), tick_to_price(tick_upper))

\* The result of a call that panicked.
PanicAmounts == [amount0 |-> Panic, amount1 |-> Panic, sqrt_calls |-> 3]

\* The zero-liquidity return left out.
liquidity_never_short_circuits(liquidity) == FALSE

\* if liquidity.is_zero() { return (ZERO, ZERO) }
liquidity_short_circuit(liquidity) == is_zero(liquidity)

\* (amount0, amount1) as returned, unless computing one of them panicked.
Amounts(amount0, amount1) ==
    IF IsPanic(amount0) \/ IsPanic(amount1) THEN PanicAmounts
    ELSE [amount0 |-> amount0, amount1 |-> amount1, sqrt_calls |-> 3]

\* The in-range amounts at every tick: the two out-of-range branches left out.
token_amounts_in_range_only(liquidity, current_tick, tick_lower, tick_upper, sqrt_price, sqrt_price_lower, sqrt_price_upper) ==
    IF IsPanic(sqrt_price) \/ IsPanic(sqrt_price_lower) \/ IsPanic(sqrt_price_upper)
    THEN PanicAmounts
    ELSE Amounts(Div(Mul(liquidity, Sub(sqrt_price_upper, sqrt_price)),
                     Mul(sqrt_price, sqrt_price_upper)),
                 Mul(liquidity, Sub(sqrt_price, sqrt_price_lower)))

\* The three branches, on the three sqrt prices already computed.
token_amounts_at(liquidity, current_tick, tick_lower, tick_upper, sqrt_price, sqrt_price_lower, sqrt_price_upper) ==
    IF IsPanic(sqrt_price) \/ IsPanic(sqrt_price_lower) \/ IsPanic(sqrt_price_upper)
    THEN PanicAmounts
    ELSE IF current_tick < tick_lower
    THEN Amounts(Div(Mul(liquidity, Sub(sqrt_price_upper, sqrt_price_lower)),
                     Mul(sqrt_price_lower, sqrt_price_upper)),
                 ZERO)
    ELSE IF current_tick >= tick_upper
    THEN Amounts(ZERO, Mul(liquidity, Sub(sqrt_price_upper, sqrt_price_lower)))
    ELSE Amounts(Div(Mul(liquidity, Sub(sqrt_price_upper, sqrt_price)),
                     Mul(sqrt_price, sqrt_price_upper)),
                 Mul(liquidity, Sub(sqrt_price, sqrt_price_lower)))

\* sqrt_calls counts the tick_to_sqrt_price evaluations of the call.
get_token_amounts_from_liquidity(liquidity, current_tick, tick_lower, tick_upper) ==
    IF liquidity_short_circuit(liquidity)
    THEN [amount0 |-> ZERO, amount1 |-> ZERO, sqrt_calls |-> 0]
    ELSE token_amounts_at(liquidity, current_tick, tick_lower, tick_upper,
                          tick_to_sqrt_price(current_tick),
                          tick_to_sqrt_price(tick_lower),
                          tick_to_sqrt_price(tick_upper))

calculate_position_value(amount0, amount1, price) ==
    Add(Mul(amount0, price), amount1)

\* ------------------------------------------------------------------------
\* analytics/src/pnl.rs
\* ------------------------------------------------------------------------

fee_rate == Lit(3, -3)

estimated_position_share == Lit(1, -2)

\* |amount0| + |amount1| of one swap, each through its decimal text.
swap_volume(swap, debug) ==
    Add(unwrap_or_zero(from_str_int(i256_abs(swap.amount0, debug))),
        unwrap_or_zero(from_str_int(i256_abs(swap.amount1, debug))))

RECURSIVE sum_volume(_, _, _)
\* Iterator::sum: the volumes are added to the total in list order.
sum_volume(total, swaps, debug) ==
    IF swaps = <<>> THEN total
    ELSE sum_volume(Add(total, swap_volume(Head(swaps), debug)), Tail(swaps), debug)

\* The share taken as nothing for a position without liquidity.
fees_weighted_by_liquidity(position, swaps, debug) ==
    IF swaps = <<>> THEN ZERO
    ELSE Mul(Mul(sum_volume(ZERO, swaps, debug), fee_rate),
             IF is_zero(unwrap_or_zero(from_str_int(position.liquidity)))
             THEN ZERO ELSE estimated_position_share)

calculate_fees_earned(position, swaps, debug) ==
    IF swaps = <<>> THEN ZERO
    ELSE Mul(Mul(sum_volume(ZERO, swaps, debug), fee_rate), estimated_position_share)

price_tolerance == Lit(1, -6)

\* if initial_price.is_zero() || current_price.is_zero() { return ZERO }
price_guard(initial_price, current_price) ==
    is_zero(initial_price) \/ is_zero(current_price)

\* The prices compared for equality, without the tolerance.
price_unchanged_exact(initial_price, current_price) ==
    is_zero(Sub(current_price, initial_price))

\* if (current_price - initial_price).abs() < price_tolerance { return ZERO }
price_unchanged(initial_price, current_price) ==
    Lt(DecAbs(Sub(current_price, initial_price)), price_tolerance)

\* The initial amounts valued at the initial price.
hodl_value_at_initial(x0, y0, initial_price, current_price) ==
    calculate_position_value(x0, y0, initial_price)

\* v_hodl: the initial amounts valued at the current price.
hodl_value(x0, y0, initial_price, current_price) ==
    calculate_position_value(x0, y0, current_price)

\* The ratio returned as it is.
il_result_unfloored(il) == il

\* il.max(Decimal::ZERO)
il_result(il) == DecMax(il, ZERO)

\* What calculate_impermanent_loss returns (Panic when the call panics);
\* amounts_calls counts its get_token_amounts_from_liquidity calls.
IlRet(r, n) == [ret |-> r, amounts_calls |-> n]

\* (v_hodl - v_current) / v_hodl, floored at zero.
il_from_ratio(il) == IlRet(IF IsPanic(il) THEN Panic ELSE il_result(il), 2)

\* if v_hodl.is_zero() { return ZERO }, else the ratio.
il_from_values(v_hodl, v_current) ==
    IF IsPanic(v_hodl) \/ IsPanic(v_current) THEN IlRet(Panic, 2)
    ELSE IF is_zero(v_hodl) THEN IlRet(ZERO, 2)
    ELSE il_from_ratio(Div(Sub(v_hodl, v_current), v_hodl))

\* Both amount pairs are valued at the current price.
il_from_amounts(init, cur, initial_price, current_price) ==
    IF IsPanic(init.amount0) THEN IlRet(Panic, 1)
    ELSE IF IsPanic(cur.amount0) THEN IlRet(Panic, 2)
    ELSE il_from_values(
             hodl_value(init.amount0, init.amount1, initial_price, current_price),
             calculate_position_value(cur.amount0, cur.amount1, current_price))

\* The amounts at the ticks of the two prices, for the position's range.
il_at_ticks(position, liquidity, initial_tick, current_tick, initial_price, current_price) ==
    il_from_amounts(
        get_token_amounts_from_liquidity(
            liquidity, initial_tick, position.tick_lower, position.tick_upper),
        get_token_amounts_from_liquidity(
            liquidity, current_tick, position.tick_lower, position.tick_upper),
        initial_price, current_price)

\* The liquidity as a Decimal: Err and zero both end the call with ZERO.
il_with_liquidity(position, liquidity, initial_price, current_price) ==
    IF liquidity = ParseErr THEN IlRet(ZERO, 0)
    ELSE IF is_zero(liquidity) THEN IlRet(ZERO, 0)
    ELSE il_at_ticks(position, liquidity, price_to_tick(initial_price),
                     price_to_tick(current_price), initial_price, current_price)

calculate_impermanent_loss(position, initial_price, current_price) ==
    IF price_guard(initial_price, current_price) THEN IlRet(ZERO, 0)
    ELSE IF IsPanic(Sub(current_price, initial_price)) THEN IlRet(Panic, 0)
    ELSE IF price_unchanged(initial_price, current_price) THEN IlRet(ZERO, 0)
    ELSE il_with_liquidity(position, from_str_int(position.liquidity),
                           initial_price, current_price)

\* Gas added instead of subtracted.
net_pnl_gas_added(fees, il, gas) == Add(Sub(fees, il), gas)

calculate_net_pnl(fees, il, gas) == Sub(Sub(fees, il), gas)

\* The PositionPnL record; panicked when one of the three calls panicked.
PositionPnL(fees_earned, impermanent_loss, gas_spent, net_pnl) ==
    [fees_earned      |-> fees_earned,
     impermanent_loss |-> impermanent_loss,
     gas_spent        |-> gas_spent,
     net_pnl          |-> net_pnl,
     panicked         |-> IsPanic(net_pnl)]

pnl_of(fees_earned, impermanent_loss, gas_spent) ==
    PositionPnL(fees_earned, impermanent_loss, gas_spent,
                calculate_net_pnl(fees_earned, impermanent_loss, gas_spent))

calculate_position_pnl(position, swaps, initial_price, current_price, gas_spent, debug) ==
    pnl_of(calculate_fees_earned(position, swaps, debug),
           calculate_impermanent_loss(position, initial_price, current_price).ret,
           gas_spent)

\* ------------------------------------------------------------------------
\* analytics/src/health.rs (pub mod health of analytics/src/lib.rs).  The
\* classifier follows its documented contract (HealthStatus of
\* models/src/pnl.rs): Critical, then Warning, then Healthy, decided with
\* is_in_range and distance_to_range_edge of utils.rs.
\* ------------------------------------------------------------------------

HealthStatus == {"Healthy", "Warning", "Critical"}

\* The classifier did not return: a call it made panicked.
HealthPanic == "panic"

\* The distance to the nearest edge is within 10% of the half-width of the
\* tick range: distance <= floor((tick_upper - tick_lower) / 20), the
\* quotient formed from those of the two ticks.
near_range_edge(distance, tick_lower, tick_upper) ==
    distance <= (tick_upper \div 20) - (tick_lower \div 20)
                    - (IF tick_upper % 20 < tick_lower % 20 THEN 1 ELSE 0)

\* In range with a non-negative net P&L: Warning near an edge, else Healthy.
health_in_range(distance, tick_lower, tick_upper) ==
    IF distance.panicked THEN HealthPanic
    ELSE IF near_range_edge(distance.value, tick_lower, tick_upper) THEN "Warning"
    ELSE "Healthy"

\* Critical is decided first, then Warning, and Healthy is what is left.
get_position_health(position, current_tick, pnl, debug) ==
    IF \/ ~is_in_range(current_tick, position.tick_lower, position.tick_upper)
       \/ Lt(pnl.net_pnl, ZERO)
    THEN "Critical"
    ELSE health_in_range(
             distance_to_range_edge(current_tick, position.tick_lower,
                                    position.tick_upper, debug),
             position.tick_lower, position.tick_upper)

\* HealthStatus::description
description(status) ==
    CASE status = "Healthy"  -> "Position is in range with positive P&L"
      [] status = "Warning"  -> "Position is near the edge of its range"
      [] status = "Critical" -> "Position is out of range or has negative P&L"

\* The explanation that goes with the status.
get_health_details(position, current_tick, pnl, debug) ==
    IF get_position_health(position, current_tick, pnl, debug) = HealthPanic
    THEN HealthPanic
    ELSE description(get_position_health(position, current_tick, pnl, debug))

\* ------------------------------------------------------------------------
\* State.  pc, call and ret are the call or request under way, its
\* arguments and what it returned; positions_table and swaps_table are the
\* rows of the two database tables.
\* ------------------------------------------------------------------------

VARIABLES pc, call, ret, positions_table, swaps_table

vars == <<pc, call, ret, positions_table, swaps_table>>

\* ------------------------------------------------------------------------
\* Text: a string is the sequence of its characters.
\* ------------------------------------------------------------------------

DigitOf ==
    ("0" :> 0) @@ ("1" :> 1) @@ ("2" :> 2) @@ ("3" :> 3) @@ ("4" :> 4)
    @@ ("5" :> 5) @@ ("6" :> 6) @@ ("7" :> 7) @@ ("8" :> 8) @@ ("9" :> 9)

RECURSIVE parse_digits(_, _, _, _, _)
\* The digits and the single point of a decimal text, from position i on.
parse_digits(s, i, mant, scale, point) ==
    IF i > Len(s) THEN Lit(mant, -scale)
    ELSE IF s[i] \in DOMAIN DigitOf
    THEN parse_digits(s, i + 1, mant * 10 + DigitOf[s[i]],
                      IF point THEN scale + 1 ELSE scale, point)
    ELSE IF s[i] = "." /\ ~point THEN parse_digits(s, i + 1, mant, scale, TRUE)
    ELSE ParseErr

\* A text without one digit is no decimal.
parse_unsigned(s) ==
    IF \E i \in 1..Len(s) : s[i] \in DOMAIN DigitOf
    THEN parse_digits(s, 1, 0, 0, FALSE)
    ELSE ParseErr

negated(r) == IF r = ParseErr THEN ParseErr ELSE Neg(r)

\* str::parse::<Decimal>: an optional sign, digits, at most one point.
parse_decimal(s) ==
    IF s = <<>> THEN ParseErr
    ELSE IF Head(s) = "-" THEN negated(parse_unsigned(Tail(s)))
    ELSE IF Head(s) = "+" THEN parse_unsigned(Tail(s))
    ELSE parse_unsigned(s)

LowerOf ==
    ("A" :> "a") @@ ("B" :> "b") @@ ("C" :> "c") @@ ("D" :> "d")
    @@ ("E" :> "e") @@ ("F" :> "f")

\* str::to_lowercase
to_lowercase(s) ==
    [i \in 1..Len(s) |-> IF s[i] \in DOMAIN LowerOf THEN LowerOf[s[i]] ELSE s[i]]

\* The decimal text of a U256 or I256: its sign, its leading eight digits
\* and the power of ten of the last of them.
to_string(v) == [neg |-> v.m < 0, digits |-> Abs(v.m), exp10 |-> v.e]

\* U256::MAX, 2^256 - 1.
U256_MAX == [m |-> 11579208, e |-> 70]

\* U256::from_str_radix(text, 10).unwrap_or_default()
parse_u256(t) ==
    IF t.neg \/ MagLess(U256_MAX, NormMag(t.digits, t.exp10)) THEN Num(0, 0)
    ELSE Num(t.digits, t.exp10)

\* text.parse::<I256>().unwrap_or_default()
parse_i256(t) ==
    IF t.neg /\ NormMag(t.digits, t.exp10) = NormMag(-I256_MIN.m, I256_MIN.e)
    THEN I256_MIN
    ELSE IF ~MagLess(NormMag(t.digits, t.exp10), NormMag(-I256_MIN.m, I256_MIN.e))
    THEN Num(0, 0)
    ELSE Num((IF t.neg THEN -1 ELSE 1) * t.digits, t.exp10)

\* ------------------------------------------------------------------------
\* db/src/lib.rs
\* ------------------------------------------------------------------------

\* The orders in which a query can return the rows S.
RowOrders(S) ==
    {q \in [1..Cardinality(S) -> S] :
        \A i, j \in 1..Cardinality(S) : i < j => q[i] # q[j]}

\* ON CONFLICT (nft_id) DO UPDATE: the last writer wins.
insert_position_last_wins(table, pos) ==
    {r \in table : r.nft_id # pos.nft_id}
        \cup {[pos EXCEPT !.liquidity = to_string(pos.liquidity)]}

\* INSERT INTO positions ... ON CONFLICT (nft_id) DO NOTHING
insert_position(table, pos) ==
    IF \E r \in table : r.nft_id = pos.nft_id THEN table
    ELSE table \cup {[pos EXCEPT !.liquidity = to_string(pos.liquidity)]}

\* The Position built from a row.
position_of_row(r) == [r EXCEPT !.liquidity = parse_u256(r.liquidity)]

\* Ok(Some(p)) is {p}, Ok(None) is {}.
get_position_by_nft(table, nft_id) ==
    {position_of_row(r) : r \in {x \in table : x.nft_id = nft_id}}

\* WHERE owner = $1 ORDER BY created_at DESC; rows created at the same time
\* come in either order.
get_positions_by_owner(table, owner) ==
    {q \in RowOrders({position_of_row(r) : r \in {x \in table : x.owner = owner}}) :
        \A i, j \in 1..Len(q) : i < j => q[i].created_at >= q[j].created_at}

\* INSERT INTO swaps ... ON CONFLICT (tx_hash, pool_id) DO NOTHING
insert_swap(table, swap) ==
    IF \E r \in table : r.tx_hash = swap.tx_hash /\ r.pool_id = swap.pool_id
    THEN table
    ELSE table \cup {[swap EXCEPT !.amount0 = to_string(swap.amount0),
                                  !.amount1 = to_string(swap.amount1)]}

swap_of_row(r) ==
    [r EXCEPT !.amount0 = parse_i256(r.amount0), !.amount1 = parse_i256(r.amount1)]

\* WHERE pool_id = $1 AND timestamp >= $2 ORDER BY timestamp ASC
get_swaps_for_pool(table, pool_id, since) ==
    {q \in RowOrders({swap_of_row(r) :
                         r \in {x \in table : x.pool_id = pool_id
                                                /\ x.timestamp >= since}}) :
        \A i, j \in 1..Len(q) : i < j => q[i].timestamp <= q[j].timestamp}

\* ------------------------------------------------------------------------
\* api/src/handlers/positions.rs
\* ------------------------------------------------------------------------

default_initial_price == <<"1", ".", "0">>

default_current_price == <<"1", ".", "0">>

default_current_tick == 0

default_gas_spent == <<"0">>

\* PnlQueryParams: a key the query string lacks takes its default.
PnlQueryParams(query) ==
    [initial_price |-> IF "initial_price" \in DOMAIN query
                       THEN query.initial_price ELSE default_initial_price,
     current_price |-> IF "current_price" \in DOMAIN query
                       THEN query.current_price ELSE default_current_price,
     current_tick  |-> IF "current_tick" \in DOMAIN query
                       THEN query.current_tick ELSE default_current_tick,
     gas_spent     |-> IF "gas_spent" \in DOMAIN query
                       THEN query.gas_spent ELSE default_gas_spent]

\* A response, and the functions of the analytics core the handler invoked
\* on its way to it.
Response(status, body) ==
    [op |-> "response", status |-> status, body |-> body, core |-> {},
     swaps_fetched |-> FALSE]

\* get_swaps_for_pool was called before the response was made.
Fetched(response) == [response EXCEPT !.swaps_fetched = TRUE]

Invoked(response, functions) == [response EXCEPT !.core = functions]

ErrorResponse(status, message) == Response(status, [error |-> message])

\* A panic unwinds the handler's task: the client gets no response.
HandlerPanic == Response("panic", [error |-> "panic"])

PositionResponse(p) ==
    [nft_id |-> p.nft_id, owner |-> p.owner, pool_id |-> p.pool_id,
     tick_lower |-> p.tick_lower, tick_upper |-> p.tick_upper,
     liquidity |-> to_string(p.liquidity), created_at |-> p.created_at]

\* The responses get_positions_handler can give.
get_positions_handler(owner, db_fault) ==
    IF db_fault = "positions"
    THEN {Response("INTERNAL_SERVER_ERROR", [positions |-> <<>>])}
    ELSE {Response("OK", [positions |-> [i \in 1..Len(q) |-> PositionResponse(q[i])]]) :
            q \in get_positions_by_owner(positions_table, owner)}

\* PositionWithPnlResponse, unless the P&L engine panicked.
PositionWithPnlResponse(position, params, pnl) ==
    IF pnl.panicked THEN HandlerPanic
    ELSE Response("OK",
             [nft_id |-> position.nft_id, owner |-> position.owner,
              pool_id |-> position.pool_id,
              tick_lower |-> position.tick_lower,
              tick_upper |-> position.tick_upper,
              liquidity |-> to_string(position.liquidity),
              created_at |-> position.created_at,
              pnl |-> [fees_earned |-> pnl.fees_earned,
                       impermanent_loss |-> pnl.impermanent_loss,
                       gas_spent |-> pnl.gas_spent, net_pnl |-> pnl.net_pnl],
              in_range |-> is_in_range(params.current_tick, position.tick_lower,
                                       position.tick_upper),
              current_tick |-> params.current_tick])

\* A gas_spent that does not parse taken as 0.
pnl_from_params_gas_defaulted(position, swaps, params, initial_price, current_price, gas_spent, debug) ==
    IF initial_price = ParseErr
    THEN ErrorResponse("BAD_REQUEST", "Invalid initial_price parameter")
    ELSE IF current_price = ParseErr
    THEN ErrorResponse("BAD_REQUEST", "Invalid current_price parameter")
    ELSE Invoked(PositionWithPnlResponse(position, params,
                     calculate_position_pnl(position, swaps, initial_price,
                                            current_price,
                                            unwrap_or_zero(gas_spent), debug)),
                 {"calculate_position_pnl"})

\* The three parameters are parsed in turn; the first that fails answers.
pnl_from_params(position, swaps, params, initial_price, current_price, gas_spent, debug) ==
    IF initial_price = ParseErr
    THEN ErrorResponse("BAD_REQUEST", "Invalid initial_price parameter")
    ELSE IF current_price = ParseErr
    THEN ErrorResponse("BAD_REQUEST", "Invalid current_price parameter")
    ELSE IF gas_spent = ParseErr
    THEN ErrorResponse("BAD_REQUEST", "Invalid gas_spent parameter")
    ELSE Invoked(PositionWithPnlResponse(position, params,
                     calculate_position_pnl(position, swaps, initial_price,
                                            current_price, gas_spent, debug)),
                 {"calculate_position_pnl"})

\* The owner check left out.
pnl_for_any_owner(position, owner, params, now, db_fault, debug) ==
    IF db_fault = "swaps"
    THEN {Fetched(ErrorResponse("INTERNAL_SERVER_ERROR", "Failed to fetch swaps"))}
    ELSE {Fetched(pnl_from_params(position, swaps, params,
                                  parse_decimal(params.initial_price),
                                  parse_decimal(params.current_price),
                                  parse_decimal(params.gas_spent), debug)) :
            swaps \in get_swaps_for_pool(swaps_table, position.pool_id, now - 24)}

\* The owner check, then the swaps of the position's pool over 24 hours.
pnl_for_position(position, owner, params, now, db_fault, debug) ==
    IF to_lowercase(position.owner) # to_lowercase(owner)
    THEN {ErrorResponse("FORBIDDEN", "Position does not belong to this owner")}
    ELSE IF db_fault = "swaps"
    THEN {Fetched(ErrorResponse("INTERNAL_SERVER_ERROR", "Failed to fetch swaps"))}
    ELSE {Fetched(pnl_from_params(position, swaps, params,
                                  parse_decimal(params.initial_price),
                                  parse_decimal(params.current_price),
                                  parse_decimal(params.gas_spent), debug)) :
            swaps \in get_swaps_for_pool(swaps_table, position.pool_id, now - 24)}

\* The responses get_position_with_pnl_handler can give.
get_position_with_pnl_handler(owner, nft_id, params, now, db_fault, debug) ==
    IF db_fault = "positions"
    THEN {ErrorResponse("INTERNAL_SERVER_ERROR", "Internal server error")}
    ELSE IF get_position_by_nft(positions_table, nft_id) = {}
    THEN {ErrorResponse("NOT_FOUND", "Position not found")}
    ELSE UNION {pnl_for_position(position, owner, params, now, db_fault, debug) :
                    position \in get_position_by_nft(positions_table, nft_id)}

\* PositionHealthResponse: the status as format!("{:?}") prints it.
PositionHealthResponse(position, status, details) ==
    IF status = HealthPanic
    THEN Invoked(HandlerPanic, {"calculate_position_pnl", "get_position_health"})
    ELSE Invoked(Response("OK", [nft_id |-> position.nft_id, status |-> status,
                                  details |-> details]),
                 {"calculate_position_pnl", "get_position_health",
                  "get_health_details"})

\* The classification of a computed P&L.
health_of_pnl(position, params, pnl, debug) ==
    IF pnl.panicked THEN Invoked(HandlerPanic, {"calculate_position_pnl"})
    ELSE PositionHealthResponse(position,
             get_position_health(position, params.current_tick, pnl, debug),
             get_health_details(position, params.current_tick, pnl, debug))

\* The three parameters are parsed in turn; the first that fails answers.
health_from_params(position, swaps, params, initial_price, current_price, gas_spent, debug) ==
    IF initial_price = ParseErr
    THEN ErrorResponse("BAD_REQUEST", "Invalid initial_price parameter")
    ELSE IF current_price = ParseErr
    THEN ErrorResponse("BAD_REQUEST", "Invalid current_price parameter")
    ELSE IF gas_spent = ParseErr
    THEN ErrorResponse("BAD_REQUEST", "Invalid gas_spent parameter")
    ELSE health_of_pnl(position, params,
             calculate_position_pnl(position, swaps, initial_price,
                                    current_price, gas_spent, debug), debug)

\* The owner check, then the swaps of the position's pool over 24 hours.
health_for_position(position, owner, params, now, db_fault, debug) ==
    IF to_lowercase(position.owner) # to_lowercase(owner)
    THEN {ErrorResponse("FORBIDDEN", "Position does not belong to this owner")}
    ELSE IF db_fault = "swaps"
    THEN {Fetched(ErrorResponse("INTERNAL_SERVER_ERROR", "Failed to fetch swaps"))}
    ELSE {Fetched(health_from_params(position, swaps, params,
                                     parse_decimal(params.initial_price),
                                     parse_decimal(params.current_price),
                                     parse_decimal(params.gas_spent), debug)) :
            swaps \in get_swaps_for_pool(swaps_table, position.pool_id, now - 24)}

\* The responses get_position_health_handler can give.
get_position_health_handler(owner, nft_id, params, now, db_fault, debug) ==
    IF db_fault = "positions"
    THEN {ErrorResponse("INTERNAL_SERVER_ERROR", "Internal server error")}
    ELSE IF get_position_by_nft(positions_table, nft_id) = {}
    THEN {ErrorResponse("NOT_FOUND", "Position not found")}
    ELSE UNION {health_for_position(position, owner, params, now, db_fault, debug) :
                    position \in get_position_by_nft(positions_table, nft_id)}

\* ------------------------------------------------------------------------
\* The inputs the calls are tried on
\* ------------------------------------------------------------------------

\* The longest swap list handed to the P&L engine.
MaxSwaps == 2

\* Ticks: ordinary ones, ticks whose exponential overflows Decimal, and
\* ticks beyond the clamp of tick_to_sqrt_price, on both sides.
Ticks ==
    {-2200000, -2100000, -500000, -20000, -1000, -1, 0, 1, 1000, 20000,
     500000, 1500000, 2100000, 2200000}

BoundTicks ==
    {-2200000, -2100000, -500000, -1000, 0, 1, 1000, 500000, 1500000,
     2100000, 2200000}

\* Decimal liquidities.
Liquidities == {ZERO, FromInt(1), FromInt(1000), FromInt(1000000)}

\* U256 liquidities: 0, 1, 1,000,000 and 10^30, which exceeds 96 bits.
U256Liquidities == {Num(0, 0), Num(1, 0), Num(1000000, 0), Num(1, 30)}

\* Tick ranges of positions, the last one inverted.
Ranges ==
    {<<-1000, 1000>>, <<10000, 20000>>, <<-20000, -10000>>, <<-100, 100>>,
     <<-10000, 10000>>, <<-10000, 100>>, <<0, 1000>>, <<0, 500000>>,
     <<2100000, 2200000>>, <<1000, -1000>>}

Position(range, liquidity) ==
    [nft_id |-> "1", owner |-> "0xtest", pool_id |-> "0xpool",
     tick_lower |-> range[1], tick_upper |-> range[2], liquidity |-> liquidity]

Positions == {Position(r, l) : r \in Ranges, l \in U256Liquidities}

Prices ==
    {FromInt(-1), ZERO, Lit(5, -1), Lit(9, -1), FromInt(1), Lit(10000005, -7),
     Lit(11, -1), FromInt(2), Lit(44816, -4)}

Swap(amount0, amount1) == [amount0 |-> amount0, amount1 |-> amount1]

SwapValues ==
    {Swap(Num(1000, 0), Num(1000, 0)), Swap(Num(2000, 0), Num(2000, 0)),
     Swap(Num(-1000, 0), Num(500, 0)), Swap(Num(1, 30), Num(1, 0)),
     Swap(I256_MIN, Num(0, 0)), Swap(Num(7, 28), Num(-7, 28))}

RECURSIVE SeqsUpTo(_, _)
\* The sequences over S of length at most n.
SeqsUpTo(S, n) ==
    IF n = 0 THEN {<<>>}
    ELSE SeqsUpTo(S, n - 1)
         \cup {Append(q, x) : q \in {r \in SeqsUpTo(S, n - 1) : Len(r) = n - 1}, x \in S}

SwapLists == SeqsUpTo(SwapValues, MaxSwaps)

GasValues == {ZERO, FromInt(5), FromInt(10), FromInt(-5)}

\* ------------------------------------------------------------------------
\* The analytics core is a library of pure functions: a behaviour of Spec
\* is one call, `call` holding the function and its arguments and `ret`
\* what it returned once pc = "done".
\* ------------------------------------------------------------------------

NoRet == [op |-> "none"]

\* The tick ranges of the direct calls: tick_lower < tick_upper.
BoundRanges == {r \in BoundTicks \X BoundTicks : r[1] < r[2]}

TokenAmountsCalls ==
    {[op |-> "get_token_amounts_from_liquidity", liquidity |-> l,
      current_tick |-> t, tick_lower |-> r[1], tick_upper |-> r[2]] :
        l \in Liquidities, t \in Ticks, r \in BoundRanges}
    \cup {[op |-> "get_token_amounts_from_liquidity", liquidity |-> Lit(7, 28),
           current_tick |-> t, tick_lower |-> -1000, tick_upper |-> 2100000] :
              t \in {0, 200000}}

ImpermanentLossCalls ==
    {[op |-> "calculate_impermanent_loss", position |-> p,
      initial_price |-> p0, current_price |-> p1] :
        p \in Positions, p0 \in Prices, p1 \in Prices}

\* Positions that differ in tick range, liquidity, owner and pool.
FeesPositions ==
    {Position(<<-1000, 1000>>, Num(1000000, 0)),
     Position(<<-100, 100>>, Num(0, 0)),
     Position(<<10000, 20000>>, Num(1, 30)),
     [Position(<<-1000, 1000>>, Num(1, 0)) EXCEPT !.owner = "0xother",
                                                 !.pool_id = "0xpool2"]}

FeesEarnedCalls ==
    {[op |-> "calculate_fees_earned", position |-> p, swaps |-> s, debug |-> d] :
        p \in FeesPositions, s \in SwapLists, d \in BOOLEAN}

PositionPnlCalls ==
    {[op |-> "calculate_position_pnl", position |-> p, swaps |-> s,
      initial_price |-> pr[1], current_price |-> pr[2], gas_spent |-> g,
      debug |-> d] :
        p \in {Position(<<-1000, 1000>>, Num(1000000, 0)),
                Position(<<0, 500000>>, Num(1000000, 0)),
                Position(<<-1000, 1000>>, Num(0, 0))},
        s \in SeqsUpTo({Swap(Num(1000, 0), Num(1000, 0)),
                         Swap(Num(2000, 0), Num(-2000, 0))}, MaxSwaps),
        pr \in {<<FromInt(1), Lit(11, -1)>>, <<FromInt(1), FromInt(1)>>,
                 <<FromInt(2), Lit(5, -1)>>},
        g \in GasValues, d \in BOOLEAN}

\* i32 values, with both ends of the type.
I32Values == {I32_MIN, -1000, -1, 0, 1, 50, 100, 150, 1000, I32_MAX}

IsInRangeCalls ==
    {[op |-> "is_in_range", current_tick |-> t, tick_lower |-> lo,
      tick_upper |-> hi] : t \in I32Values, lo \in I32Values, hi \in I32Values}

DistanceCalls ==
    {[op |-> "distance_to_range_edge", current_tick |-> t, tick_lower |-> lo,
      tick_upper |-> hi, debug |-> d] :
        t \in I32Values, lo \in I32Values, hi \in I32Values, d \in BOOLEAN}

\* Tick ranges of classified positions: ordinary ones, one narrower than
\* 20 ticks, two wider than i32::MAX ticks and an inverted one.
HealthRanges ==
    {<<-1000, 1000>>, <<50, 150>>, <<0, 19>>, <<I32_MIN, 0>>,
     <<I32_MIN, I32_MAX>>, <<1000, -1000>>}

HealthTicks ==
    I32Values \cup {-950, -901, -900, -899, 0, 10, 55, 56, 145, 899, 900, 999}

\* A PositionPnL whose net P&L is negative, zero or positive.
HealthPnls ==
    {pnl_of(f, ZERO, g) : f \in {ZERO, Lit(18, -2)}, g \in {ZERO, FromInt(5)}}

HealthCalls ==
    {[op |-> "get_position_health", position |-> Position(r, Num(1000000, 0)),
      current_tick |-> t, pnl |-> pnl, debug |-> d] :
        r \in HealthRanges, t \in HealthTicks, pnl \in HealthPnls, d \in BOOLEAN}

NetPnlCalls ==
    {[op |-> "calculate_net_pnl", fees |-> f, il |-> i, gas |-> g] :
        f \in {ZERO, FromInt(100), Lit(18, -2)},
        i \in {ZERO, FromInt(20), Lit(23, -3)}, g \in GasValues}

\* Ticks of the conversions: ordinary ones, the largest tick of a Uniswap
\* pool, both sides of the clamp at |tick| = 2000100 and the ends of i32
\* (i32::MIN + 1 stands for i32::MIN, which has no negation in 32 bits).
ConversionTicks ==
    Ticks \cup {-I32_MAX, -2000101, -2000100, -887272, -236000, -235000,
                -200000, -2, 2, 200000, 235000, 236000, 887272, 2000100,
                2000101, I32_MAX}

TickToSqrtPriceCalls ==
    {[op |-> "tick_to_sqrt_price", tick |-> t] : t \in ConversionTicks}

TickToPriceCalls ==
    {[op |-> "tick_to_price", tick |-> t] : t \in ConversionTicks}

RangeWidthCalls ==
    {[op |-> "range_width_percent", tick_lower |-> lo, tick_upper |-> hi] :
        lo \in ConversionTicks, hi \in ConversionTicks}

Init ==
    /\ pc = "call"
    /\ call \in TokenAmountsCalls \cup ImpermanentLossCalls
                \cup FeesEarnedCalls \cup NetPnlCalls \cup PositionPnlCalls
                \cup IsInRangeCalls \cup DistanceCalls \cup HealthCalls
                \cup TickToSqrtPriceCalls \cup TickToPriceCalls
                \cup RangeWidthCalls
    /\ ret = NoRet
    /\ positions_table = {}
    /\ swaps_table = {}

Return(r) ==
    /\ ret' = r
    /\ pc' = "done"
    /\ UNCHANGED <<call, positions_table, swaps_table>>

CallTokenAmounts ==
    /\ pc = "call"
    /\ call.op = "get_token_amounts_from_liquidity"
    /\ Return(get_token_amounts_from_liquidity(
                  call.liquidity, call.current_tick, call.tick_lower, call.tick_upper))

CallImpermanentLoss ==
    /\ pc = "call"
    /\ call.op = "calculate_impermanent_loss"
    /\ Return(calculate_impermanent_loss(
                  call.position, call.initial_price, call.current_price))

CallFeesEarned ==
    /\ pc = "call"
    /\ call.op = "calculate_fees_earned"
    /\ Return([ret |-> calculate_fees_earned(call.position, call.swaps, call.debug)])

CallNetPnl ==
    /\ pc = "call"
    /\ call.op = "calculate_net_pnl"
    /\ Return([ret |-> calculate_net_pnl(call.fees, call.il, call.gas)])

CallPositionPnl ==
    /\ pc = "call"
    /\ call.op = "calculate_position_pnl"
    /\ Return(calculate_position_pnl(
                  call.position, call.swaps, call.initial_price,
                  call.current_price, call.gas_spent, call.debug))

CallIsInRange ==
    /\ pc = "call"
    /\ call.op = "is_in_range"
    /\ Return([ret |-> is_in_range(call.current_tick, call.tick_lower,
                                   call.tick_upper)])

CallDistanceToRangeEdge ==
    /\ pc = "call"
    /\ call.op = "distance_to_range_edge"
    /\ Return([ret |-> distance_to_range_edge(call.current_tick, call.tick_lower,
                                              call.tick_upper, call.debug)])

CallPositionHealth ==
    /\ pc = "call"
    /\ call.op = "get_position_health"
    /\ Return([ret |-> get_position_health(call.position, call.current_tick,
                                           call.pnl, call.debug)])

CallTickToSqrtPrice ==
    /\ pc = "call"
    /\ call.op = "tick_to_sqrt_price"
    /\ Return([ret |-> tick_to_sqrt_price(call.tick)])

CallTickToPrice ==
    /\ pc = "call"
    /\ call.op = "tick_to_price"
    /\ Return([ret |-> tick_to_price(call.tick)])

CallRangeWidthPercent ==
    /\ pc = "call"
    /\ call.op = "range_width_percent"
    /\ Return([ret |-> range_width_percent(call.tick_lower, call.tick_upper)])

Next ==
    \/ CallIsInRange
    \/ CallTickToSqrtPrice
    \/ CallTickToPrice
    \/ CallRangeWidthPercent
    \/ CallDistanceToRangeEdge
    \/ CallPositionHealth
    \/ CallTokenAmounts
    \/ CallImpermanentLoss
    \/ CallFeesEarned
    \/ CallNetPnl
    \/ CallPositionPnl

Spec == Init /\ [][Next]_vars

\* ------------------------------------------------------------------------
\* The service: rows are inserted into the two tables and the handlers
\* answer requests from them, one request at a time.
\* ------------------------------------------------------------------------

OwnerA == <<"0", "x", "A", "b">>

OwnerB == <<"0", "x", "c", "d">>

\* The owners requests name: OwnerA as stored, in lower case, and OwnerB.
RequestOwners == {OwnerA, <<"0", "x", "a", "b">>, OwnerB}

NftIds == {"1", "2"}

StoredPosition(nft_id, owner, pool_id, range, liquidity, created_at) ==
    [nft_id |-> nft_id, owner |-> owner, pool_id |-> pool_id,
     tick_lower |-> range[1], tick_upper |-> range[2],
     liquidity |-> liquidity, created_at |-> created_at]

\* The positions handed to insert_position; two share an nft_id, and the
\* second of them has its ticks inverted.
PositionInputs ==
    {StoredPosition("1", OwnerA, "0xpool", <<-1000, 1000>>, Num(1000000, 0), 1),
     StoredPosition("1", OwnerB, "0xpool", <<1000, -1000>>, Num(1000000, 0), 2),
     StoredPosition("2", OwnerA, "0xother", <<-100, 100>>, Num(1, 30), 1)}

StoredSwap(tx_hash, pool_id, amount0, amount1, timestamp) ==
    [tx_hash |-> tx_hash, pool_id |-> pool_id, amount0 |-> amount0,
     amount1 |-> amount1, timestamp |-> timestamp]

\* The swaps handed to insert_swap; two share (tx_hash, pool_id).
SwapInputs ==
    {StoredSwap("0xa", "0xpool", Num(1000, 0), Num(1000, 0), 30),
     StoredSwap("0xa", "0xpool", Num(7, 0), Num(7, 0), 30),
     StoredSwap("0xb", "0xpool", Num(2000, 0), Num(-2000, 0), 10),
     StoredSwap("0xc", "0xother", Num(5, 0), Num(5, 0), 30)}

\* Utc::now() at a request, in hours.
Nows == {30, 48}

\* A database call fails or not, whatever the tables hold.
DbFaults == {"none", "positions", "swaps"}

\* Query strings: with every key or only some, parseable or not; the last
\* one is the price 0.00000000001, of tick -253297.
Queries ==
    {[current_tick |-> 0],
     [initial_price |-> <<"1", ".", "0">>, current_price |-> <<"1", ".", "1">>,
      gas_spent |-> <<"0">>],
     [initial_price |-> <<"1", ".", "0">>, current_price |-> <<"1", ".", "1">>,
      gas_spent |-> <<"-", "5">>],
     [current_price |-> <<"1", ".", "1">>, gas_spent |-> <<"a", "b", "c">>],
     [initial_price |-> <<"a", "b", "c">>, current_tick |-> 0],
     [current_price |-> <<"x">>, current_tick |-> 0],
     [current_price |-> <<"1", ".", "1">>, current_tick |-> 2000,
      gas_spent |-> <<"1", "0">>],
     [initial_price |-> <<"a", "b", "c">>, current_price |-> <<"x">>,
      gas_spent |-> <<>>],
     [current_price |-> <<"0", ".", "9">>, gas_spent |-> <<"0", ".", "5">>],
     [initial_price |-> <<"-", "1">>, current_price |-> <<"1", ".", "1">>],
     [current_price |-> <<"0", ".", "0", "0", "0", "0", "0", "0", "0", "0", "0",
                          "0", "1">>]}

ServiceInit ==
    /\ pc = "idle"
    /\ call = NoRet
    /\ ret = NoRet
    /\ positions_table = {}
    /\ swaps_table = {}

InsertPosition ==
    /\ pc = "idle"
    /\ \E pos \in PositionInputs :
        /\ positions_table' = insert_position(positions_table, pos)
        /\ call' = [op |-> "insert_position", pos |-> pos]
    /\ ret' = [op |-> "ok"]
    /\ pc' = "responded"
    /\ UNCHANGED swaps_table

InsertSwap ==
    /\ pc = "idle"
    /\ \E swap \in SwapInputs :
        /\ swaps_table' = insert_swap(swaps_table, swap)
        /\ call' = [op |-> "insert_swap", swap |-> swap]
    /\ ret' = [op |-> "ok"]
    /\ pc' = "responded"
    /\ UNCHANGED positions_table

\* A list request that also deletes the stored swaps.
GetPositionsDeletingSwaps ==
    /\ pc = "idle"
    /\ \E owner \in RequestOwners, db_fault \in DbFaults \ {"swaps"} :
        /\ call' = [op |-> "get_positions_handler", owner |-> owner,
                    db_fault |-> db_fault]
        /\ ret' \in get_positions_handler(owner, db_fault)
    /\ pc' = "responded"
    /\ swaps_table' = {}
    /\ UNCHANGED positions_table

GetPositions ==
    /\ pc = "idle"
    /\ \E owner \in RequestOwners, db_fault \in DbFaults \ {"swaps"} :
        /\ call' = [op |-> "get_positions_handler", owner |-> owner,
                    db_fault |-> db_fault]
        /\ ret' \in get_positions_handler(owner, db_fault)
    /\ pc' = "responded"
    /\ UNCHANGED <<positions_table, swaps_table>>

GetPositionWithPnl ==
    /\ pc = "idle"
    /\ \E owner \in RequestOwners, nft_id \in NftIds, query \in Queries,
          now \in Nows, db_fault \in DbFaults, debug \in BOOLEAN :
        /\ call' = [op |-> "get_position_with_pnl_handler", owner |-> owner,
                    nft_id |-> nft_id, params |-> PnlQueryParams(query),
                    now |-> now, db_fault |-> db_fault]
        /\ ret' \in get_position_with_pnl_handler(
                        owner, nft_id, PnlQueryParams(query), now, db_fault, debug)
    /\ pc' = "responded"
    /\ UNCHANGED <<positions_table, swaps_table>>

GetPositionHealth ==
    /\ pc = "idle"
    /\ \E owner \in RequestOwners, nft_id \in NftIds, query \in Queries,
          now \in Nows, db_fault \in DbFaults, debug \in BOOLEAN :
        /\ call' = [op |-> "get_position_health_handler", owner |-> owner,
                    nft_id |-> nft_id, params |-> PnlQueryParams(query),
                    now |-> now, db_fault |-> db_fault]
        /\ ret' \in get_position_health_handler(
                        owner, nft_id, PnlQueryParams(query), now, db_fault, debug)
    /\ pc' = "responded"
    /\ UNCHANGED <<positions_table, swaps_table>>

\* The response is sent, or the insert has returned, and the server waits
\* for the next call.
NextRequest ==
    /\ pc = "responded"
    /\ pc' = "idle"
    /\ call' = NoRet
    /\ ret' = NoRet
    /\ UNCHANGED <<positions_table, swaps_table>>

ServiceNext ==
    \/ InsertPosition
    \/ InsertSwap
    \/ GetPositions
    \/ GetPositionWithPnl
    \/ GetPositionHealth
    \/ NextRequest

ServiceSpec == ServiceInit /\ [][ServiceNext]_vars

\* ------------------------------------------------------------------------
\* Properties of the analytics core (Spec)
\* ------------------------------------------------------------------------

\* A call of op has returned.
Returned(op) == pc = "done" /\ call.op = op

\* C1: whatever the position and the two prices, the value
\* calculate_impermanent_loss returns is never negative.
C1_LossNeverNegative ==
    (Returned("calculate_impermanent_loss") /\ ~IsPanic(ret.ret))
        => Ge(ret.ret, ZERO)

\* C1 witness: a call whose ratio went through the floor returned a loss above 0.
C1_PositiveLossReturned ==
    /\ Returned("calculate_impermanent_loss")
    /\ ret.amounts_calls = 2
    /\ ~IsPanic(ret.ret)
    /\ Gt(ret.ret, ZERO)

\* C2: with liquidity 0, or an initial or current price that is zero or
\* negative, calculate_impermanent_loss returns exactly 0.
C2_ZeroForNonPositiveInput ==
    (/\ Returned("calculate_impermanent_loss")
     /\ \/ is_zero(call.position.liquidity)
        \/ Le(call.initial_price, ZERO)
        \/ Le(call.current_price, ZERO))
        => ret.ret = ZERO

\* C3: prices less than 0.000001 apart, equal prices among them, give a
\* loss of 0 for any position.
C3_NoMoveNoLoss ==
    (/\ Returned("calculate_impermanent_loss")
     /\ Lt(DecAbs(Sub(call.current_price, call.initial_price)), Lit(1, -6)))
        => ret.ret = ZERO

\* C3 witness: two different prices within the tolerance, on a position with
\* liquidity, returned 0.
C3_CloseButDifferentPrices ==
    /\ Returned("calculate_impermanent_loss")
    /\ call.initial_price # call.current_price
    /\ ~is_zero(call.initial_price)
    /\ ~is_zero(call.current_price)
    /\ ~is_zero(call.position.liquidity)
    /\ Lt(DecAbs(Sub(call.current_price, call.initial_price)), Lit(1, -6))
    /\ ret.ret = ZERO

\* The value of a pair of amounts at a price.
C4_Value(amounts, price) == Add(Mul(amounts.amount0, price), amounts.amount1)

\* max(0, (hodl - current) / hodl), and 0 when hodl is 0.
C4_Loss(hodl, current) ==
    IF is_zero(hodl) THEN ZERO
    ELSE DecMax(Div(Sub(hodl, current), hodl), ZERO)

\* The loss as the contract words it, from the amounts at the ticks of the
\* two prices, both valued at the current price.
C4_Expected(position, liquidity, initial_price, current_price) ==
    C4_Loss(C4_Value(get_token_amounts_from_liquidity(
                         liquidity, price_to_tick(initial_price),
                         position.tick_lower, position.tick_upper),
                     current_price),
            C4_Value(get_token_amounts_from_liquidity(
                         liquidity, price_to_tick(current_price),
                         position.tick_lower, position.tick_upper),
                     current_price))

\* None of the early returns of calculate_impermanent_loss applies.
C4_NoGuardApplies ==
    /\ ~is_zero(call.initial_price)
    /\ ~is_zero(call.current_price)
    /\ ~Lt(DecAbs(Sub(call.current_price, call.initial_price)), Lit(1, -6))
    /\ ~Overflows(call.position.liquidity)
    /\ ~is_zero(call.position.liquidity)

\* C4: when no early return applies, the loss is max(0, (hodl - current) /
\* hodl) with both amount pairs valued at the current price, and 0 when hodl
\* is 0.
C4_LossFormula ==
    (/\ Returned("calculate_impermanent_loss")
     /\ C4_NoGuardApplies
     /\ ~IsPanic(ret.ret))
        => ret.ret = C4_Expected(call.position, call.position.liquidity,
                                 call.initial_price, call.current_price)

\* C4 witness: a price move on a position in range returned a positive loss
\* computed from both amount pairs.
C4_LossComputed ==
    /\ Returned("calculate_impermanent_loss")
    /\ C4_NoGuardApplies
    /\ ret.amounts_calls = 2
    /\ ~IsPanic(ret.ret)
    /\ Gt(ret.ret, ZERO)
    /\ call.position.tick_lower < call.position.tick_upper

\* C5: a PositionPnL carries the caller's gas, the fees and the loss of the
\* two engine functions, and net_pnl = fees_earned - impermanent_loss -
\* gas_spent; net_pnl(100, 20, 10) is 70.
C5_NetPnlIdentity ==
    /\ (Returned("calculate_position_pnl") /\ ~ret.panicked)
        => /\ ret.gas_spent = call.gas_spent
           /\ ret.fees_earned =
                  calculate_fees_earned(call.position, call.swaps, call.debug)
           /\ ret.impermanent_loss =
                  calculate_impermanent_loss(call.position, call.initial_price,
                                             call.current_price).ret
           /\ ret.net_pnl =
                  Sub(Sub(ret.fees_earned, ret.impermanent_loss), ret.gas_spent)
    /\ (/\ Returned("calculate_net_pnl")
        /\ call.fees = FromInt(100)
        /\ call.il = FromInt(20)
        /\ call.gas = FromInt(10))
        => ret.ret = FromInt(70)

\* C5 witness: a PositionPnL with fees, a loss and gas, all three non-zero.
C5_AllThreeTermsPresent ==
    /\ Returned("calculate_position_pnl")
    /\ ~ret.panicked
    /\ Gt(ret.fees_earned, ZERO)
    /\ Gt(ret.impermanent_loss, ZERO)
    /\ Gt(ret.gas_spent, ZERO)

\* |v| of a 256-bit amount.
C7_Magnitude(v) == [m |-> Abs(v.m), e |-> v.e]

\* a + b for magnitudes of any size.
C7_Plus(a, b) ==
    IF a.m = 0 THEN b
    ELSE IF b.m = 0 THEN a
    ELSE IF a.e >= b.e THEN NormMag(a.m + ShiftRight(b.m, a.e - b.e), a.e)
    ELSE NormMag(b.m + ShiftRight(a.m, b.e - a.e), b.e)

RECURSIVE C7_Volume(_)
\* The sum over the swaps of |amount0| + |amount1|.
C7_Volume(swaps) ==
    IF swaps = <<>> THEN ZERO
    ELSE C7_Plus(C7_Plus(C7_Magnitude(Head(swaps).amount0),
                         C7_Magnitude(Head(swaps).amount1)),
                 C7_Volume(Tail(swaps)))

\* volume * 0.003 * 0.01
C7_Fees(volume) == NormMag(volume.m * 3, volume.e - 5)

\* C7: calculate_fees_earned returns the sum over all swaps of |amount0| +
\* |amount1|, times 0.003 * 0.01, for 256-bit amounts of any size; 0 for no
\* swaps.
C7_FeesCountEverySwap ==
    (Returned("calculate_fees_earned") /\ ~IsPanic(ret.ret))
        => ret.ret = C7_Fees(C7_Volume(call.swaps))

\* C9: with positive liquidity and tick_lower < tick_upper, below the range
\* the position is all token0 (amount1 = 0, amount0 > 0) and at or above it
\* all token1 (amount0 = 0, amount1 > 0).
C9_OneSidedOutOfRange ==
    (/\ Returned("get_token_amounts_from_liquidity")
     /\ Gt(call.liquidity, ZERO)
     /\ call.tick_lower < call.tick_upper
     /\ ~IsPanic(ret.amount0))
        => /\ call.current_tick < call.tick_lower
                => (ret.amount1 = ZERO /\ Gt(ret.amount0, ZERO))
           /\ call.current_tick >= call.tick_upper
                => (ret.amount0 = ZERO /\ Gt(ret.amount1, ZERO))

\* C10: with liquidity 0 the amounts are (0, 0) for every tick and range,
\* and no tick is converted to a price.
C10_ZeroLiquidityZeroAmounts ==
    (Returned("get_token_amounts_from_liquidity") /\ is_zero(call.liquidity))
        => (ret.amount0 = ZERO /\ ret.amount1 = ZERO /\ ret.sqrt_calls = 0)

\* C10 witness: liquidity 0 on a range whose upper tick has no
\* representable price returned (0, 0).
C10_ZeroLiquidityAtExtremeTick ==
    /\ Returned("get_token_amounts_from_liquidity")
    /\ is_zero(call.liquidity)
    /\ call.tick_upper = 1500000
    /\ ret.amount0 = ZERO
    /\ ret.amount1 = ZERO

\* C11: is_in_range(t, lo, hi) is true exactly when lo <= t < hi; t = lo is
\* in range when the range is not empty and t = hi is never in range.
C11_InRangeIffBetween ==
    Returned("is_in_range")
        => /\ ret.ret <=> (call.tick_lower <= call.current_tick
                             /\ call.current_tick < call.tick_upper)
           /\ call.current_tick = call.tick_upper => ~ret.ret
           /\ (call.current_tick = call.tick_lower
                /\ call.tick_lower < call.tick_upper) => ret.ret

\* C11 witness: a tick on the upper bound of a non-empty range was found
\* out of range.
C11_UpperBoundExcluded ==
    /\ Returned("is_in_range")
    /\ call.tick_lower < call.tick_upper
    /\ call.current_tick = call.tick_upper
    /\ ~ret.ret

\* The exact min(t - lo, hi - t) for lo <= t < hi: the two differences sum
\* to hi - lo < 2^32, so the smaller one always lies within i32.
C12_Exact(t, lo, hi) ==
    IF sub_overflows(t, lo) THEN hi - t
    ELSE IF sub_overflows(hi, t) THEN t - lo
    ELSE IF t - lo <= hi - t THEN t - lo ELSE hi - t

\* C12: distance_to_range_edge returns min(t - lower, upper - t) for a tick
\* in range and 0 for one out of range: the exact value, never negative,
\* never wrapped and never a failure.
C12_DistanceExact ==
    Returned("distance_to_range_edge")
        => /\ ~ret.ret.panicked
           /\ ret.ret.value >= 0
           /\ ret.ret.value =
                IF call.tick_lower <= call.current_tick
                   /\ call.current_tick < call.tick_upper
                THEN C12_Exact(call.current_tick, call.tick_lower, call.tick_upper)
                ELSE 0

\* lo <= t < hi, spelt out.
C13_InRange(c) ==
    c.position.tick_lower <= c.current_tick /\ c.current_tick < c.position.tick_upper

\* C13: get_position_health returns Critical whenever the tick is out of
\* the position's range or pnl.net_pnl < 0.
C13_CriticalWhenOutOrLosing ==
    (Returned("get_position_health")
     /\ (~C13_InRange(call) \/ Lt(call.pnl.net_pnl, ZERO)))
        => ret.ret = "Critical"

\* C13 witness: an in-range, centred position with a negative net P&L was
\* classified Critical.
C13_CriticalInRangeLosing ==
    /\ Returned("get_position_health")
    /\ C13_InRange(call)
    /\ call.current_tick = 0
    /\ call.position.tick_lower = -1000
    /\ Lt(call.pnl.net_pnl, ZERO)
    /\ ret.ret = "Critical"

\* floor((a + b + c) / 20) for a, b >= 0, the sum never formed.
C14_Twentieth(a, b, c) ==
    (a \div 20) + (b \div 20) + (((a % 20) + (b % 20) + c) \div 20)

\* d is at most 10% of (hi - lo) / 2, that is 20 * d <= hi - lo, for a
\* whole d: d <= floor((hi - lo) / 20).  A width outside i32 is split into
\* hi + (-(lo + 1)) + 1, or for hi < lo into -(lo + (-(hi + 1)) + 1).
C14_WithinTenth(d, lo, hi) ==
    IF ~sub_overflows(hi, lo) THEN d <= (hi - lo) \div 20
    ELSE IF hi > lo THEN d <= C14_Twentieth(hi, -(lo + 1), 1)
    ELSE d <= -C14_Twentieth(lo, -(hi + 1), 20)

\* The value distance_to_range_edge returns for the call's triple is at
\* most 10% of the half-width.
C14_NearEdge(c) ==
    LET d == distance_to_range_edge(c.current_tick, c.position.tick_lower,
                                    c.position.tick_upper, c.debug)
    IN  ~d.panicked
        /\ C14_WithinTenth(d.value, c.position.tick_lower, c.position.tick_upper)

C15_HealthyExactly ==
    Returned("get_position_health")
        => (ret.ret = "Healthy"
            <=> /\ C13_InRange(call)
                /\ ~C14_WithinTenth(C12_Exact(call.current_tick,
                                              call.position.tick_lower,
                                              call.position.tick_upper),
                                    call.position.tick_lower,
                                    call.position.tick_upper)
                /\ Ge(call.pnl.net_pnl, ZERO))

\* The condition the contract attaches to a status.
C16_Condition(status, c) ==
    CASE status = "Critical" -> ~C13_InRange(c) \/ Lt(c.pnl.net_pnl, ZERO)
      [] status = "Warning"  -> C13_InRange(c) /\ C14_NearEdge(c)
      [] status = "Healthy"  -> /\ C13_InRange(c)
                                /\ ~C14_NearEdge(c)
                                /\ Ge(c.pnl.net_pnl, ZERO)

\* C16: the classifier gives every triple one of the three statuses, and
\* the contract's conditions single out exactly that status: no triple
\* meets two conditions and none meets no condition.
C16_ExactlyOneStatus ==
    Returned("get_position_health")
        => /\ ret.ret \in HealthStatus
           /\ {s \in HealthStatus : C16_Condition(s, call)} = {ret.ret}

\* C18: calculate_fees_earned does not depend on the position: any other
\* position gets the same fees for the same swap list.
C18_FeesIgnorePosition ==
    Returned("calculate_fees_earned")
        => \A p \in FeesPositions :
               calculate_fees_earned(p, call.swaps, call.debug) = ret.ret

\* C18 witness: a position without liquidity was credited fees above 0.
C18_FeesWithoutLiquidity ==
    /\ Returned("calculate_fees_earned")
    /\ call.position.liquidity = Num(0, 0)
    /\ ~IsPanic(ret.ret)
    /\ Gt(ret.ret, ZERO)

\* The tick ranges, tick_lower < tick_upper, that contain the range of p.
C19_WiderRanges(p) ==
    {w \in Ranges : w[1] < w[2] /\ w[1] <= p.tick_lower /\ p.tick_upper <= w[2]}

\* The loss of position p over the tick range w, all else the same.
C19_LossOver(w, p, initial_price, current_price) ==
    calculate_impermanent_loss(
        [p EXCEPT !.tick_lower = w[1], !.tick_upper = w[2]],
        initial_price, current_price).ret

\* C19: with liquidity and both (positive) prices fixed, the loss of a
\* position is at least the loss of every position whose wider range
\* contains its range.
C19_NarrowerLosesMore ==
    (Returned("calculate_impermanent_loss") /\ ~IsPanic(ret.ret)
     /\ call.position.tick_lower < call.position.tick_upper
     /\ Gt(call.initial_price, ZERO) /\ Gt(call.current_price, ZERO))
        => \A w \in C19_WiderRanges(call.position) :
               \/ IsPanic(C19_LossOver(w, call.position, call.initial_price,
                                       call.current_price))
               \/ Le(C19_LossOver(w, call.position, call.initial_price,
                                  call.current_price), ret.ret)

\* The position has positive liquidity, both prices are positive, the
\* range contains the tick of the initial price and the tick has changed.
C20_MoveFromInsideRange ==
    /\ call.position.liquidity # Num(0, 0)
    /\ Gt(call.initial_price, ZERO)
    /\ Gt(call.current_price, ZERO)
    /\ call.position.tick_lower <= price_to_tick(call.initial_price)
    /\ price_to_tick(call.initial_price) < call.position.tick_upper
    /\ price_to_tick(call.current_price) # price_to_tick(call.initial_price)

\* A move of 10% from price 1.0 for the range [-1000, 1000) with
\* liquidity 1,000,000.
C20_TenPercentMove ==
    /\ call.position.tick_lower = -1000
    /\ call.position.tick_upper = 1000
    /\ call.position.liquidity = Num(1000000, 0)
    /\ call.initial_price = FromInt(1)
    /\ call.current_price \in {Lit(11, -1), Lit(9, -1)}

\* C20: a price move that changes the tick, from a tick inside the range of
\* a position with positive liquidity, gives a loss above 0 and below 1,
\* and below 0.1 for a move of 10% from 1.0 over [-1000, 1000).
C20_LossBetweenZeroAndOne ==
    (Returned("calculate_impermanent_loss") /\ ~IsPanic(ret.ret))
        => /\ C20_MoveFromInsideRange
                => Gt(ret.ret, ZERO) /\ Lt(ret.ret, ONE)
           /\ C20_TenPercentMove => Lt(ret.ret, Lit(1, -1))

\* C21: a non-zero liquidity enters calculate_impermanent_loss as exactly
\* its value: the conversion to Decimal does not fail, and no zero is
\* returned before the token amounts are computed from it.
C21_LiquidityUsedExactly ==
    (Returned("calculate_impermanent_loss") /\ ~IsPanic(ret.ret)
     /\ call.position.liquidity # Num(0, 0)
     /\ Gt(call.initial_price, ZERO) /\ Gt(call.current_price, ZERO)
     /\ ~price_unchanged(call.initial_price, call.current_price))
        => /\ from_str_int(call.position.liquidity) = call.position.liquidity
           /\ ret.amounts_calls = 2

\* |tick/2 * ln(1.0001)| > 100, computed as the code computes it.
C22_Clamped(tick) ==
    Gt(DecAbs(Mul(Mul(FromInt(tick), half), ln_base)), FromInt(100))

\* C22: tick_to_sqrt_price returns a value for every tick: the clamp value
\* 1,000,000 (tick > 0) or 0.000001 (tick <= 0) when |tick/2 * ln(1.0001)|
\* exceeds 100, and a representable exponential otherwise.
C22_SqrtPriceDefined ==
    Returned("tick_to_sqrt_price")
        => IF C22_Clamped(call.tick)
           THEN ret.ret = (IF call.tick > 0 THEN Lit(1, 6) ELSE Lit(1, -6))
           ELSE ~IsPanic(ret.ret)

\* The call on record is one of the four core operations, on a tick range
\* with tick_lower < tick_upper where it takes one.
C23_CoreCall ==
    \/ Returned("tick_to_price")
    \/ Returned("range_width_percent") /\ call.tick_lower < call.tick_upper
    \/ Returned("get_token_amounts_from_liquidity")
           /\ call.tick_lower < call.tick_upper
    \/ Returned("calculate_impermanent_loss")
           /\ call.position.tick_lower < call.position.tick_upper

\* The value the call on record returned: of the two token amounts, the
\* first (both are Panic when the call aborted).
C23_Value ==
    IF call.op = "get_token_amounts_from_liquidity" THEN ret.amount0 ELSE ret.ret

\* C23: tick_to_price, range_width_percent, get_token_amounts_from_liquidity
\* and calculate_impermanent_loss return a value, without aborting, for every
\* tick range with tick_lower < tick_upper, every current tick, every
\* liquidity and every price.
C23_CoreIsTotal == C23_CoreCall => ~IsPanic(C23_Value)

\* C24: for every tick t that tick_to_sqrt_price does not clamp,
\* price_to_tick(tick_to_price(t)) is within 1 of t.
C24_RoundTripWithinOne ==
    (Returned("tick_to_price") /\ ~C22_Clamped(call.tick))
        => /\ ~IsPanic(ret.ret)
           /\ Abs(price_to_tick(ret.ret) - call.tick) <= 1

\* The ticks of two prices lie on the same side of the range: both below
\* tick_lower, or both at or above tick_upper.
C25_SameSideOutOfRange(position, price_a, price_b) ==
    \/ /\ price_to_tick(price_a) < position.tick_lower
       /\ price_to_tick(price_b) < position.tick_lower
    \/ /\ price_to_tick(price_a) >= position.tick_upper
       /\ price_to_tick(price_b) >= position.tick_upper

\* C25: for a fixed position and initial price, two current prices whose
\* ticks are both below tick_lower, or both at or above tick_upper, give the
\* same impermanent loss.
C25_NoFurtherLossOutOfRange ==
    (Returned("calculate_impermanent_loss") /\ ~IsPanic(ret.ret)
     /\ call.position.tick_lower < call.position.tick_upper
     /\ from_str_int(call.position.liquidity) # ParseErr
     /\ Gt(call.initial_price, ZERO) /\ Gt(call.current_price, ZERO))
        => \A other \in {p \in Prices : Gt(p, ZERO)} :
               C25_SameSideOutOfRange(call.position, call.current_price, other)
                   => calculate_impermanent_loss(
                          call.position, call.initial_price, other).ret = ret.ret

\* C26: when the ticks of the initial price and of the current price both
\* lie below tick_lower, or both at or above tick_upper, the impermanent
\* loss calculate_impermanent_loss returns is 0, for any positive liquidity
\* and positive prices.
C26_NoLossOutsideRange ==
    (Returned("calculate_impermanent_loss") /\ ~IsPanic(ret.ret)
     /\ call.position.tick_lower < call.position.tick_upper
     /\ call.position.liquidity # Num(0, 0)
     /\ Gt(call.initial_price, ZERO) /\ Gt(call.current_price, ZERO)
     /\ C25_SameSideOutOfRange(call.position, call.initial_price,
                               call.current_price))
        => ret.ret = ZERO

\* A position of liquidity 1,000,000 whose range lies above both prices, the
\* price having moved: the token amounts were computed twice, and no loss
\* was returned.
C26_MovedBelowTheRange ==
    /\ Returned("calculate_impermanent_loss")
    /\ call.position.liquidity = Num(1000000, 0)
    /\ call.initial_price = FromInt(1)
    /\ call.current_price = Lit(9, -1)
    /\ price_to_tick(call.current_price) < call.position.tick_lower
    /\ price_to_tick(call.initial_price) < call.position.tick_lower
    /\ ret.amounts_calls = 2
    /\ ret.ret = ZERO

\* ------------------------------------------------------------------------
\* Properties of the service (ServiceSpec)
\* ------------------------------------------------------------------------

\* A request to handler op has been answered.
Answered(op) == pc = "responded" /\ call.op = op

\* C6: in a PositionPnL the handler returns, fees_earned, impermanent_loss
\* and gas_spent are never negative, whatever gas_spent text was parsed.
C6_OnlyNetPnlMayBeNegative ==
    (Answered("get_position_with_pnl_handler") /\ ret.status = "OK")
        => /\ Ge(ret.body.pnl.fees_earned, ZERO)
           /\ Ge(ret.body.pnl.impermanent_loss, ZERO)
           /\ Ge(ret.body.pnl.gas_spent, ZERO)

\* C8: every stored position, and every position a handler passes to the
\* P&L engine, has tick_lower < tick_upper.
C8_TicksOrdered ==
    /\ \A r \in positions_table : r.tick_lower < r.tick_upper
    /\ (Answered("get_position_with_pnl_handler") /\ ret.status \in {"OK", "panic"})
        => \A p \in get_position_by_nft(positions_table, call.nft_id) :
               p.tick_lower < p.tick_upper

\* A request to one of the two handlers that parse prices and gas.
C17_Parsing ==
    /\ pc = "responded"
    /\ call.op \in {"get_position_with_pnl_handler", "get_position_health_handler"}

\* One of the three parameters of the request does not parse as a decimal.
C17_ParseFails ==
    \/ parse_decimal(call.params.initial_price) = ParseErr
    \/ parse_decimal(call.params.current_price) = ParseErr
    \/ parse_decimal(call.params.gas_spent) = ParseErr

\* The lookups before the parsing succeed: the position exists, belongs to
\* the owner of the request, and no query failed.
C17_ReachesParsing ==
    /\ call.db_fault = "none"
    /\ get_position_by_nft(positions_table, call.nft_id) # {}
    /\ \A p \in get_position_by_nft(positions_table, call.nft_id) :
           to_lowercase(p.owner) = to_lowercase(call.owner)

\* C17: a request whose initial_price, current_price or gas_spent does not
\* parse ends with a 400 and invokes none of calculate_position_pnl,
\* get_position_health and get_health_details.
C17_ParseFailureIs400 ==
    (C17_Parsing /\ C17_ParseFails)
        => ret.status = "BAD_REQUEST" /\ ret.core = {}

\* C17 as amended: such a request never invokes the core and never ends
\* with 200; it ends with 400 when the lookups before the parsing succeed
\* and with their 404, 403 or 500 when they do not.
C17_ParseFailureNeverReachesCore ==
    (C17_Parsing /\ C17_ParseFails)
        => /\ ret.core = {}
           /\ IF C17_ReachesParsing THEN ret.status = "BAD_REQUEST"
              ELSE ret.status \in {"NOT_FOUND", "FORBIDDEN", "INTERNAL_SERVER_ERROR"}

\* C17 witness: the health handler found the position and its swaps, then
\* refused a gas_spent that does not parse.
C17_BadGasRefused ==
    /\ Answered("get_position_health_handler")
    /\ C17_ReachesParsing
    /\ parse_decimal(call.params.initial_price) # ParseErr
    /\ parse_decimal(call.params.current_price) # ParseErr
    /\ parse_decimal(call.params.gas_spent) = ParseErr
    /\ ret.status = "BAD_REQUEST"
    /\ ret.core = {}

\* C27: serving a request (list by owner, position with P&L, position
\* health) leaves the stored positions and swaps as they were: a handler and
\* the core it calls only read.
C27_RequestsOnlyRead ==
    [][(pc = "idle"
        /\ call'.op \in {"get_positions_handler", "get_position_with_pnl_handler",
                         "get_position_health_handler"})
          => UNCHANGED <<positions_table, swaps_table>>]_vars

\* A P&L request answered with 200 from tables that hold positions and swaps.
C27_ServedFromStoredRows ==
    /\ Answered("get_position_with_pnl_handler")
    /\ ret.status = "OK"
    /\ Cardinality(positions_table) = 2
    /\ Cardinality(swaps_table) = 3

\* The first parameter that does not parse, in the order initial_price,
\* current_price, gas_spent.
C28_FirstParseFailure(params) ==
    IF parse_decimal(params.initial_price) = ParseErr
    THEN "Invalid initial_price parameter"
    ELSE IF parse_decimal(params.current_price) = ParseErr
    THEN "Invalid current_price parameter"
    ELSE IF parse_decimal(params.gas_spent) = ParseErr
    THEN "Invalid gas_spent parameter"
    ELSE "none"

\* The outcome the order of the checks gives the request on record.
C28_Outcome ==
    IF call.db_fault = "positions" THEN "INTERNAL_SERVER_ERROR"
    ELSE IF get_position_by_nft(positions_table, call.nft_id) = {}
    THEN "NOT_FOUND"
    ELSE IF \E p \in get_position_by_nft(positions_table, call.nft_id) :
                to_lowercase(p.owner) # to_lowercase(call.owner)
    THEN "FORBIDDEN"
    ELSE IF call.db_fault = "swaps" THEN "INTERNAL_SERVER_ERROR"
    ELSE IF C28_FirstParseFailure(call.params) # "none" THEN "BAD_REQUEST"
    ELSE "OK"

\* C28: the two handlers decide in the order position lookup error (500),
\* position absent (404), owner mismatch (403), swap lookup error (500),
\* unparsable initial_price, current_price or gas_spent in that order (400),
\* otherwise 200; an earlier failure masks a later one.
C28_OutcomeInFixedOrder ==
    C17_Parsing
        => /\ ret.status = C28_Outcome
           /\ ret.status = "BAD_REQUEST"
                  => ret.body.error = C28_FirstParseFailure(call.params)

\* The position the request names is stored under another owner, letter
\* case ignored.
C29_OtherOwner ==
    /\ C17_Parsing
    /\ \E p \in get_position_by_nft(positions_table, call.nft_id) :
           to_lowercase(p.owner) # to_lowercase(call.owner)

\* A 200 goes only to the stored owner, letter case ignored.
C29_OkOnlyForOwner ==
    (C17_Parsing /\ ret.status = "OK")
        => \E p \in get_position_by_nft(positions_table, call.nft_id) :
               to_lowercase(p.owner) = to_lowercase(call.owner)

\* C29: a 200 is returned only when the stored owner equals the owner of the
\* request ignoring letter case; for any other owner the handler answers
\* 403, fetches no swaps and does not invoke the analytics core.
C29_OtherOwnerGets403 ==
    /\ C29_OkOnlyForOwner
    /\ C29_OtherOwner
           => /\ ret.status = "FORBIDDEN"
              /\ ~ret.swaps_fetched
              /\ ret.core = {}

\* C29 as amended: for any other owner the handler fetches no swaps and does
\* not invoke the core, and answers 403 when the position lookup succeeded
\* and 500 when it failed.
C29_OtherOwnerNeverServed ==
    /\ C29_OkOnlyForOwner
    /\ C29_OtherOwner
           => /\ ret.status = (IF call.db_fault = "positions"
                                THEN "INTERNAL_SERVER_ERROR" ELSE "FORBIDDEN")
              /\ ~ret.swaps_fetched
              /\ ret.core = {}

\* Another owner asked for the P&L of a stored position whose pool has
\* swaps in the window, with parameters that parse, and was refused.
C29_OtherOwnerRefused ==
    /\ Answered("get_position_with_pnl_handler")
    /\ C29_OtherOwner
    /\ call.db_fault = "none"
    /\ C28_FirstParseFailure(call.params) = "none"
    /\ \E p \in get_position_by_nft(positions_table, call.nft_id) :
           \E swaps \in get_swaps_for_pool(swaps_table, p.pool_id, call.now - 24) :
               Len(swaps) > 0
    /\ ret.status = "FORBIDDEN"

\* The rows of the key an insert_position names, before the insert.
C30_PositionRows(pos) == {r \in positions_table : r.nft_id = pos.nft_id}

\* The rows of the key an insert_swap names, before the insert.
C30_SwapRows(swap) ==
    {r \in swaps_table : r.tx_hash = swap.tx_hash /\ r.pool_id = swap.pool_id}

\* An insert_position step: Ok(()), one row for the nft_id afterwards; the
\* row that was there is kept as it was, and a first insert is read back
\* with the values inserted.
C30_InsertPositionStep ==
    (pc = "idle" /\ call'.op = "insert_position")
        => /\ ret'.op = "ok"
           /\ \A r \in positions_table : r \in positions_table'
           /\ Cardinality({r \in positions_table' :
                               r.nft_id = call'.pos.nft_id}) = 1
           /\ C30_PositionRows(call'.pos) # {}
                  => positions_table' = positions_table
           /\ C30_PositionRows(call'.pos) = {}
                  => get_position_by_nft(positions_table', call'.pos.nft_id)
                         = {call'.pos}

\* The same of an insert_swap step, per (tx_hash, pool_id).
C30_InsertSwapStep ==
    (pc = "idle" /\ call'.op = "insert_swap")
        => /\ ret'.op = "ok"
           /\ \A r \in swaps_table : r \in swaps_table'
           /\ Cardinality({r \in swaps_table' :
                               /\ r.tx_hash = call'.swap.tx_hash
                               /\ r.pool_id = call'.swap.pool_id}) = 1
           /\ C30_SwapRows(call'.swap) # {} => swaps_table' = swaps_table
           /\ C30_SwapRows(call'.swap) = {}
                  => {swap_of_row(r) : r \in swaps_table' \ swaps_table}
                         = {call'.swap}

====
